---------------------------- MODULE Spec2Model ----------------------------
(***************************************************************************)
(* Gameplay-mode controller of the traffic-simulation sandbox              *)
(* (game/src/sandbox/gameplay/mod.rs).                                     *)
(*                                                                         *)
(* SpecInitialize : GameplayRunner::initialize, one action per statement   *)
(*                  of the function, over every mode, configured agent     *)
(*                  count, baseline-file state and set of stored scenarios.*)
(* SpecToggle     : the per-frame toggle synchronizers manage_acs and      *)
(*                  manage_overlays working on one ModalMenu.              *)
(*                                                                         *)
(* Rust Option<T> values are sequences: None is <<>>, Some(x) is <<x>>.    *)
(***************************************************************************)
EXTENDS Naturals, Sequences, FiniteSets, TLC

VARIABLES
    \* ---- inputs of initialize (the UI / environment) ----
    mode,            \* the GameplayMode argument
    num_agents,      \* ui.primary.current_flags.num_agents : Option<usize>
    rng_seed,        \* ui.primary.current_flags.sim_flags (its rng seed)
    prebaked_file,   \* whether read_binary of the prebaked results succeeds
    stored,          \* names of the scenarios stored for the current map
    \* ---- locals and effects of initialize ----
    pc,              \* position in initialize
    prebaked,        \* the local `prebaked` : Option<Analytics>
    warnings,        \* number of WARNING lines printed
    runner,          \* the local `runner` : Option<GameplayRunner>
    maybe_scenario,  \* the local `maybe_scenario` : Option<String>
    scenario,        \* the local `scenario` : Option<Scenario>
    branch,          \* which arm of the resolution chain ran, Option<String>
    sim,             \* ui.primary.sim
    trace,           \* the calls initialize has made so far, in order
    returned,        \* what initialize returned to its caller, Option
    \* ---- the toggle synchronizers ----
    menu,            \* the ModalMenu: its choices and its chosen action
    agent_cs,        \* ui.agent_cs
    acs,             \* the scheme the mode passes to manage_acs
    overlay,         \* the Overlays value the mode passes to manage_overlays
    time_changed,    \* the time_changed argument of this frame
    ov_call,         \* Option: arguments, effects and return value of the
                     \* last manage_overlays call of this frame
    phase,           \* "idle" between frames, "frame" after menu.event
    acs_calls,       \* calls of manage_acs since menu.event
    ov_calls,        \* calls of manage_overlays since menu.event
    \* ---- the selection wizards change_scenario and load_map ----
    picker,          \* which wizard callback is running
    wiz,             \* "open", "aborted", "constructing" (SandboxMode::new is
                     \* running), "done" (the callback returned a replacement)
    wiz_outcome,     \* what choose_string saw in the last call, Option
    transition,      \* the last return value of the callback, Option<Transition>
    current_map,     \* ui.primary.map.get_name()
    \* ---- the metric comparators ----
    now,             \* the live value
    baseline,        \* the baseline value
    out_fewer,       \* Option: what cmp_count_fewer(now, baseline) returned
    out_more,        \* Option: what cmp_count_more(now, baseline) returned
    out_duration,    \* Option: what cmp_duration_shorter(now, baseline) did
    \* ---- GameplayRunner::event ----
    ev_calls,        \* calls of event on the controller so far
    ev_last          \* Option: dispatch and result of the last event call

initVars == <<mode, num_agents, rng_seed, prebaked_file, stored, pc, prebaked,
              warnings, runner, maybe_scenario, scenario, branch, sim, trace,
              returned>>
toggleVars == <<menu, agent_cs, acs, overlay, time_changed, ov_call, phase,
                acs_calls, ov_calls>>
wizardVars == <<picker, wiz, wiz_outcome, transition, current_map>>
cmpVars == <<now, baseline, out_fewer, out_more, out_duration>>
eventVars == <<ev_calls, ev_last>>
vars == <<initVars, toggleVars, wizardVars, cmpVars, eventVars>>

None == <<>>
Some(x) == <<x>>

\* ------------------------------------------------------------------ bounds
\* Largest configured agent count (num_agents ranges over None, Some(0..MaxAgents)).
MaxAgents == 2
\* Largest rng seed in the simulation flags.
MaxSeed == 1
\* Calls of one synchronizer allowed within one frame.
MaxCalls == 2
\* Calls of event on one controller.
MaxEvents == 2
\* Largest live or baseline value handed to a comparator (counts, and
\* durations in ticks).
MaxValue == 5
\* The tolerance of Duration::epsilon_eq, in ticks: durations less than this
\* apart are epsilon-equal.
Epsilon == 2

\* ------------------------------------------------------- program constants
\* Duration::seconds(0.1), in tenths of a second.
StepTenths == 1

\* ===================================================== initialize: helpers

PSRC == "weekday_typical_traffic_from_psrc"
JustBuses == "just buses"

\* lines 83-87 (and 165-169): the synthesized label of the current configuration.
\* format!("random scenario with {} agents", n) prints n in decimal.
Builtin_Constant(n_agents) ==
    "random scenario with some agents"
Builtin(n_agents) ==
    IF n_agents # None
    THEN "random scenario with " \o ToString(n_agents[1]) \o " agents"
    ELSE "random scenario with some agents"

AgentCounts == {None} \cup {Some(n) : n \in 0..MaxAgents}

\* Scenario names a caller may carry in GameplayMode::PlayScenario.
ScenarioNames ==
    {PSRC, JustBuses, "custom"} \cup {Builtin(c) : c \in AgentCounts}

\* Names under which a scenario file may exist for the map.
StorableNames ==
    {PSRC, "custom", JustBuses, "random scenario with some agents",
     "random scenario with 1 agents"}

TripModes == {"Walk", "Drive"}

GameplayModes ==
    {[kind |-> "Freeform", arg |-> ""]}
    \cup {[kind |-> "PlayScenario", arg |-> s] : s \in ScenarioNames}
    \cup {[kind |-> "OptimizeBus", arg |-> "route"]}
    \cup {[kind |-> "CreateGridlock", arg |-> ""]}
    \cup {[kind |-> "FasterTrips", arg |-> t] : t \in TripModes}

\* lines 55-73, second component of the match: the scenario each mode asks for.
MaybeScenario_Always(m) ==
    IF m.kind = "PlayScenario" THEN Some(m.arg) ELSE Some(PSRC)
MaybeScenario(m) ==
    CASE m.kind = "Freeform"     -> None
      [] m.kind = "PlayScenario" -> Some(m.arg)
      [] OTHER                   -> Some(PSRC)

\* sim::Scenario constructors (crate sim).
ScaledRun(n) ==
    [scenario_name |-> "scaled_run", via |-> "scaled_run",
     agents |-> Some(n), seed_buses |-> TRUE]
SmallRun ==
    [scenario_name |-> "small_run", via |-> "small_run",
     agents |-> None, seed_buses |-> TRUE]
EmptyScenario ==
    [scenario_name |-> "empty", via |-> "empty",
     agents |-> Some(0), seed_buses |-> FALSE]
\* abstutil::read_binary of a scenario file: Ok(scenario) or Err.
ReadScenario(name, files) ==
    IF name \in files
    THEN [ok |-> TRUE,
          value |-> [scenario_name |-> name, via |-> "read_binary",
                     agents |-> None, seed_buses |-> FALSE]]
    ELSE [ok |-> FALSE, value |-> EmptyScenario]

\* lines 88-109: the resolution chain.  The result names the arm taken, whether
\* storage was read, and the scenario (or the failed unwrap).
Resolve_BusesIgnored(name, n_agents, files) ==
    IF name = Builtin(n_agents)
    THEN [arm |-> "builtin", read |-> FALSE, ok |-> TRUE,
          value |-> IF n_agents # None THEN ScaledRun(n_agents[1]) ELSE SmallRun]
    ELSE LET r == ReadScenario(name, files)
         IN  [arm |-> "load", read |-> TRUE, ok |-> r.ok, value |-> r.value]
Resolve_ScaleDropped(name, n_agents, files) ==
    IF name = Builtin(n_agents)
    THEN [arm |-> "builtin", read |-> FALSE, ok |-> TRUE, value |-> SmallRun]
    ELSE IF name = JustBuses
    THEN [arm |-> "just buses", read |-> FALSE, ok |-> TRUE,
          value |-> [EmptyScenario EXCEPT !.scenario_name = JustBuses,
                                          !.seed_buses = TRUE]]
    ELSE LET r == ReadScenario(name, files)
         IN  [arm |-> "load", read |-> TRUE, ok |-> r.ok, value |-> r.value]
Resolve_UnwrapOrDefault(name, n_agents, files) ==
    IF name = Builtin(n_agents)
    THEN [arm |-> "builtin", read |-> FALSE, ok |-> TRUE,
          value |-> IF n_agents # None THEN ScaledRun(n_agents[1]) ELSE SmallRun]
    ELSE IF name = JustBuses
    THEN [arm |-> "just buses", read |-> FALSE, ok |-> TRUE,
          value |-> [EmptyScenario EXCEPT !.scenario_name = JustBuses,
                                          !.seed_buses = TRUE]]
    ELSE LET r == ReadScenario(name, files)
         IN  [arm |-> "load", read |-> TRUE, ok |-> TRUE, value |-> r.value]
Resolve_AnyLabelBuiltin(name, n_agents, files) ==
    IF name \in {Builtin(c) : c \in AgentCounts}
    THEN [arm |-> "builtin", read |-> FALSE, ok |-> TRUE,
          value |-> IF n_agents # None THEN ScaledRun(n_agents[1]) ELSE SmallRun]
    ELSE IF name = JustBuses
    THEN [arm |-> "just buses", read |-> FALSE, ok |-> TRUE,
          value |-> [EmptyScenario EXCEPT !.scenario_name = JustBuses,
                                          !.seed_buses = TRUE]]
    ELSE LET r == ReadScenario(name, files)
         IN  [arm |-> "load", read |-> TRUE, ok |-> r.ok, value |-> r.value]
Resolve(name, n_agents, files) ==
    IF name = Builtin(n_agents)
    THEN [arm |-> "builtin", read |-> FALSE, ok |-> TRUE,
          value |-> IF n_agents # None THEN ScaledRun(n_agents[1]) ELSE SmallRun]
    ELSE IF name = JustBuses
    THEN [arm |-> "just buses", read |-> FALSE, ok |-> TRUE,
          value |-> [EmptyScenario EXCEPT !.scenario_name = JustBuses,
                                          !.seed_buses = TRUE]]
    ELSE LET r == ReadScenario(name, files)
         IN  [arm |-> "load", read |-> TRUE, ok |-> r.ok, value |-> r.value]

\* sim_flags.make_rng(): the random source is a function of the flags alone.
MakeRng(seed) == [seeded_from |-> seed]

EmptySim == [instantiated |-> 0, scenario |-> None, rng |-> None,
             steps |-> 0, time |-> 0]

\* ===================================================== initialize: actions

\* lines 46-53: read the prebaked analytics, or warn and use Analytics::new().
LoadPrebaked_Propagate ==
    /\ pc = "start"
    /\ IF prebaked_file
       THEN /\ prebaked' = Some("loaded")
            /\ pc' = "construct"
            /\ UNCHANGED warnings
       ELSE /\ prebaked' = None
            /\ pc' = "panicked"
            /\ UNCHANGED warnings
    /\ trace' = Append(trace, "read_prebaked")
    /\ UNCHANGED <<mode, num_agents, rng_seed, prebaked_file, stored, runner,
                   maybe_scenario, scenario, branch, sim, returned>>
    /\ UNCHANGED <<toggleVars, wizardVars, cmpVars, eventVars>>
LoadPrebaked ==
    /\ pc = "start"
    /\ IF prebaked_file
       THEN /\ prebaked' = Some("loaded")
            /\ UNCHANGED warnings
       ELSE /\ prebaked' = Some("empty")
            /\ warnings' = warnings + 1
    /\ pc' = "construct"
    /\ trace' = Append(trace, "read_prebaked")
    /\ UNCHANGED <<mode, num_agents, rng_seed, prebaked_file, stored, runner,
                   maybe_scenario, scenario, branch, sim, returned>>
    /\ UNCHANGED <<toggleVars, wizardVars, cmpVars, eventVars>>

\* lines 55-79: build the State variant and its menu, pick the scenario name,
\* assemble the runner.
ConstructMode ==
    /\ pc = "construct"
    /\ maybe_scenario' = MaybeScenario(mode)
    /\ runner' = Some([mode |-> mode,
                       menu |-> [standalone_layout |-> FALSE],
                       state |-> mode.kind,
                       prebaked |-> prebaked[1]])
    /\ pc' = IF MaybeScenario(mode) # None THEN "resolve" ELSE "return"
    /\ trace' = Append(trace, "construct")
    /\ UNCHANGED <<mode, num_agents, rng_seed, prebaked_file, stored, prebaked,
                   warnings, scenario, branch, sim, returned>>
    /\ UNCHANGED <<toggleVars, wizardVars, cmpVars, eventVars>>

\* lines 80-109: inside the loading screen, resolve the name.  A failed
\* read_binary(..).unwrap() panics: initialize unwinds and its locals are dropped.
ResolveScenario ==
    /\ pc = "resolve"
    /\ LET r == Resolve(maybe_scenario[1], num_agents, stored)
       IN  /\ branch' = Some(r.arm)
           /\ trace' = IF r.read
                       THEN trace \o <<"resolve", "read_scenario">>
                       ELSE Append(trace, "resolve")
           /\ IF r.ok
              THEN /\ scenario' = Some(r.value)
                   /\ pc' = "instantiate"
                   /\ UNCHANGED runner
              ELSE /\ scenario' = None
                   /\ pc' = "panicked"
                   /\ runner' = None
    /\ UNCHANGED <<mode, num_agents, rng_seed, prebaked_file, stored, prebaked,
                   warnings, maybe_scenario, sim, returned>>
    /\ UNCHANGED <<toggleVars, wizardVars, cmpVars, eventVars>>

\* lines 110-115: scenario.instantiate(sim, map, rng, timer) consumes the scenario.
Instantiate ==
    /\ pc = "instantiate"
    /\ sim' = [sim EXCEPT !.instantiated = @ + 1,
                          !.scenario = scenario,
                          !.rng = Some(MakeRng(rng_seed))]
    /\ scenario' = None
    /\ pc' = "step"
    /\ trace' = Append(trace, "instantiate")
    /\ UNCHANGED <<mode, num_agents, rng_seed, prebaked_file, stored, prebaked,
                   warnings, runner, maybe_scenario, branch, returned>>
    /\ UNCHANGED <<toggleVars, wizardVars, cmpVars, eventVars>>

\* line 116: ui.primary.sim.step(map, Duration::seconds(0.1)).
StepSim_BeforeInstantiate ==
    /\ pc \in {"instantiate", "step"}
    /\ sim' = [sim EXCEPT !.steps = @ + 1, !.time = @ + StepTenths]
    /\ pc' = IF pc = "step" THEN "return" ELSE pc
    /\ sim.steps = 0
    /\ trace' = Append(trace, "step")
    /\ UNCHANGED <<mode, num_agents, rng_seed, prebaked_file, stored, prebaked,
                   warnings, runner, maybe_scenario, scenario, branch, returned>>
    /\ UNCHANGED <<toggleVars, wizardVars, cmpVars, eventVars>>
StepSim ==
    /\ pc = "step"
    /\ sim' = [sim EXCEPT !.steps = @ + 1, !.time = @ + StepTenths]
    /\ pc' = "return"
    /\ trace' = Append(trace, "step")
    /\ UNCHANGED <<mode, num_agents, rng_seed, prebaked_file, stored, prebaked,
                   warnings, runner, maybe_scenario, scenario, branch, returned>>
    /\ UNCHANGED <<toggleVars, wizardVars, cmpVars, eventVars>>

\* line 119: the runner is the value of initialize.
Return ==
    /\ pc = "return"
    /\ returned' = runner
    /\ runner' = None
    /\ pc' = "done"
    /\ UNCHANGED <<mode, num_agents, rng_seed, prebaked_file, stored, prebaked,
                   warnings, maybe_scenario, scenario, branch, sim, trace>>
    /\ UNCHANGED <<toggleVars, wizardVars, cmpVars, eventVars>>

\* ================================================= toggle synchronizers: data

\* render::AgentColorScheme.  VehicleTypes is the default that line 260 resets
\* to; the other two stand for the schemes modes pass to manage_acs.
Schemes == {"VehicleTypes", "Delay", "TripTimeSoFar"}
\* sandbox::overlays::Overlays.  "Custom" is the overlay the calling mode shows
\* ("the custom thing" of line 211), "Other" any overlay another UI path shows.
OverlayStates == {"Inactive", "Custom", "Other"}

AcsShow == "show agent colors"
AcsHide == "hide agent colors"
OvShow == "show overlay"
OvHide == "hide overlay"
OtherAction == "quit"

\* ------------------------------------------------ ezgui::ModalMenu (crate ezgui)
\* A menu is its list of choice labels and the action chosen this frame.
Labels(m) == {m.choices[i] : i \in DOMAIN m.choices}

\* ModalMenu::maybe_change_action(old, new): relabel the choice `old`, if present.
MaybeChangeAction(m, old, new) ==
    [m EXCEPT !.choices = [i \in DOMAIN m.choices |->
                              IF m.choices[i] = old THEN new ELSE m.choices[i]]]

\* ModalMenu::swap_action(old, new): if `old` was chosen this frame, consume it,
\* relabel the choice and report true.
SwapAction(m, old, new) ==
    IF m.chosen_action = Some(old)
    THEN [hit |-> TRUE,
          menu |-> MaybeChangeAction([m EXCEPT !.chosen_action = None], old, new)]
    ELSE [hit |-> FALSE, menu |-> m]

\* ------------------------------------------------------------ manage_overlays
\* lines 222-227: synchronize the label with active_originally.
OverlaySync_Skipped(m, active_originally, show, hide) ==
    m
OverlaySync(m, active_originally, show, hide) ==
    IF active_originally
    THEN MaybeChangeAction(m, show, hide)
    ELSE MaybeChangeAction(m, hide, show)

\* lines 229-236: the result of the if / else-if / else chain, with Rust's
\* short-circuit && (swap_action is only called when its guard holds).
OverlayOutcome_AlwaysReset(m, ov, show, hide, active_originally, t_changed) ==
    IF (~active_originally) /\ SwapAction(m, show, hide).hit
    THEN [menu |-> SwapAction(m, show, hide).menu, overlay |-> "Inactive",
          result |-> TRUE]
    ELSE IF active_originally /\ SwapAction(m, hide, show).hit
    THEN [menu |-> SwapAction(m, hide, show).menu, overlay |-> "Inactive",
          result |-> FALSE]
    ELSE [menu |-> m, overlay |-> "Inactive",
          result |-> active_originally /\ t_changed]
OverlayOutcome_Refresh(m, ov, show, hide, active_originally, t_changed) ==
    IF (~active_originally) /\ SwapAction(m, show, hide).hit
    THEN [menu |-> SwapAction(m, show, hide).menu, overlay |-> ov,
          result |-> TRUE]
    ELSE IF active_originally /\ SwapAction(m, hide, show).hit
    THEN [menu |-> SwapAction(m, hide, show).menu, overlay |-> "Inactive",
          result |-> FALSE]
    ELSE [menu |-> m, overlay |-> ov, result |-> t_changed]
OverlayOutcome(m, ov, show, hide, active_originally, t_changed) ==
    IF (~active_originally) /\ SwapAction(m, show, hide).hit
    THEN [menu |-> SwapAction(m, show, hide).menu, overlay |-> ov,
          result |-> TRUE]
    ELSE IF active_originally /\ SwapAction(m, hide, show).hit
    THEN [menu |-> SwapAction(m, hide, show).menu, overlay |-> "Inactive",
          result |-> FALSE]
    ELSE [menu |-> m, overlay |-> ov,
          result |-> active_originally /\ t_changed]

\* lines 213-237: manage_overlays as a function of its arguments.
ManageOverlaysResult(m, ov, show, hide, active_originally, t_changed) ==
    OverlayOutcome(OverlaySync(m, active_originally, show, hide),
                   ov, show, hide, active_originally, t_changed)

\* ----------------------------------------------------------------- manage_acs
\* lines 250-255: synchronize the label with active_originally.
AcsSync_Skipped(m, active_originally, show, hide) ==
    m
AcsSync(m, active_originally, show, hide) ==
    IF active_originally
    THEN MaybeChangeAction(m, show, hide)
    ELSE MaybeChangeAction(m, hide, show)

\* lines 257-261: assign the scheme, reset it to the default, or do nothing.
AcsOutcome_Unguarded(m, cs, show, hide, scheme, active_originally) ==
    IF (~active_originally) /\ SwapAction(m, show, hide).hit
    THEN [menu |-> SwapAction(m, show, hide).menu, agent_cs |-> scheme]
    ELSE IF active_originally /\ SwapAction(m, hide, show).hit
    THEN [menu |-> SwapAction(m, hide, show).menu, agent_cs |-> "VehicleTypes"]
    ELSE [menu |-> m, agent_cs |-> "VehicleTypes"]
AcsOutcome(m, cs, show, hide, scheme, active_originally) ==
    IF (~active_originally) /\ SwapAction(m, show, hide).hit
    THEN [menu |-> SwapAction(m, show, hide).menu, agent_cs |-> scheme]
    ELSE IF active_originally /\ SwapAction(m, hide, show).hit
    THEN [menu |-> SwapAction(m, hide, show).menu, agent_cs |-> "VehicleTypes"]
    ELSE [menu |-> m, agent_cs |-> cs]

\* lines 240-262: manage_acs as a function of its arguments.
ManageAcsResult(m, cs, show, hide, scheme) ==
    LET active_originally == cs = scheme
    IN  AcsOutcome(AcsSync(m, active_originally, show, hide),
                   cs, show, hide, scheme, active_originally)

\* ================================================ toggle synchronizers: actions

\* ModalMenu::event at the start of a frame: the player picks one of the
\* choices shown, or nothing.  The frame's time_changed is fixed here.
MenuEvent ==
    /\ phase = "idle"
    /\ \E c \in {None} \cup {Some(l) : l \in Labels(menu)} :
           menu' = [menu EXCEPT !.chosen_action = c]
    /\ time_changed' \in BOOLEAN
    /\ ov_call' = None
    /\ acs_calls' = 0
    /\ ov_calls' = 0
    /\ phase' = "frame"
    /\ UNCHANGED <<agent_cs, acs, overlay>>
    /\ UNCHANGED <<initVars, wizardVars, cmpVars, eventVars>>

\* The mode's per-frame call manage_acs(menu, ctx, ui, show, hide, acs).
CallManageAcs ==
    /\ phase = "frame"
    /\ acs_calls < MaxCalls
    /\ LET r == ManageAcsResult(menu, agent_cs, AcsShow, AcsHide, acs)
       IN  /\ menu' = r.menu
           /\ agent_cs' = r.agent_cs
    /\ acs_calls' = acs_calls + 1
    /\ UNCHANGED <<acs, overlay, time_changed, ov_call, phase, ov_calls>>
    /\ UNCHANGED <<initVars, wizardVars, cmpVars, eventVars>>

\* The mode's per-frame call manage_overlays(menu, ctx, show, hide, overlays,
\* active_originally, time_changed); active_originally is whether the overlay
\* currently shown is the mode's own.
CallManageOverlays ==
    /\ phase = "frame"
    /\ ov_calls < MaxCalls
    /\ LET r == ManageOverlaysResult(menu, overlay, OvShow, OvHide,
                                     overlay = "Custom", time_changed)
       IN  /\ menu' = r.menu
           /\ overlay' = r.overlay
           /\ ov_call' = Some([active_originally |-> overlay = "Custom",
                                time_changed |-> time_changed,
                                menu_before |-> menu,
                                overlay_before |-> overlay,
                                menu_after |-> r.menu,
                                overlay_after |-> r.overlay,
                                result |-> r.result])
    /\ ov_calls' = ov_calls + 1
    /\ UNCHANGED <<agent_cs, acs, time_changed, phase, acs_calls>>
    /\ UNCHANGED <<initVars, wizardVars, cmpVars, eventVars>>

\* lines 211-212: on true the caller sets the overlay to its custom thing.
CallerSetsOverlay ==
    /\ phase = "frame"
    /\ ov_call # None
    /\ ov_call[1].result
    /\ overlay' = "Custom"
    /\ UNCHANGED <<menu, agent_cs, acs, time_changed, ov_call, phase,
                   acs_calls, ov_calls>>
    /\ UNCHANGED <<initVars, wizardVars, cmpVars, eventVars>>

\* The frame ends (the menu is drawn as it now stands).
EndFrame ==
    /\ phase = "frame"
    /\ phase' = "idle"
    /\ UNCHANGED <<menu, agent_cs, acs, overlay, time_changed, ov_call,
                   acs_calls, ov_calls>>
    /\ UNCHANGED <<initVars, wizardVars, cmpVars, eventVars>>

\* Between frames another UI path changes the color scheme or the overlay.
ExternalChange ==
    /\ phase = "idle"
    /\ agent_cs' \in Schemes
    /\ overlay' \in OverlayStates
    /\ acs_calls' = 0
    /\ ov_calls' = 0
    /\ ov_call' = None
    /\ UNCHANGED <<menu, acs, time_changed, phase>>
    /\ UNCHANGED <<initVars, wizardVars, cmpVars, eventVars>>

\* ======================================================== specifications

InitEnvironment ==
    /\ mode \in GameplayModes
    /\ num_agents \in AgentCounts
    /\ rng_seed \in 0..MaxSeed
    /\ prebaked_file \in BOOLEAN
    /\ stored \in SUBSET StorableNames
    /\ pc = "start"
    /\ prebaked = None
    /\ warnings = 0
    /\ runner = None
    /\ maybe_scenario = None
    /\ scenario = None
    /\ branch = None
    /\ sim = EmptySim
    /\ trace = <<>>
    /\ returned = None

InitMenu ==
    /\ menu = [choices |-> <<AcsShow, OvShow, OtherAction>>,
               chosen_action |-> None]
    /\ agent_cs = "VehicleTypes"
    /\ overlay = "Inactive"
    /\ time_changed = FALSE
    /\ ov_call = None
    /\ phase = "idle"
    /\ acs_calls = 0
    /\ ov_calls = 0

\* No wizard is open.
InitNoWizard ==
    /\ picker = "none"
    /\ wiz = "done"
    /\ wiz_outcome = None
    /\ transition = None
    /\ current_map = "montlake"

\* No comparison has been asked for.
InitNoCompare ==
    /\ now = 0
    /\ baseline = 0
    /\ out_fewer = None
    /\ out_more = None
    /\ out_duration = None

\* event has not been called.
InitNoEvent ==
    /\ ev_calls = 0
    /\ ev_last = None

\* initialize, from every environment; the menu machinery is at rest.
InitInitialize ==
    /\ InitEnvironment
    /\ InitMenu
    /\ InitNoWizard
    /\ InitNoCompare
    /\ InitNoEvent
    /\ acs = "Delay"

NextInitialize ==
    \/ LoadPrebaked
    \/ ConstructMode
    \/ ResolveScenario
    \/ Instantiate
    \/ StepSim
    \/ Return

SpecInitialize == InitInitialize /\ [][NextInitialize]_vars

\* The frame loop of a mode whose menu carries both toggles, for every scheme
\* the mode may pass; initialize has returned a Freeform-like environment.
InitFreeformDone ==
    /\ mode = [kind |-> "Freeform", arg |-> ""]
    /\ num_agents = None
    /\ rng_seed = 0
    /\ prebaked_file = FALSE
    /\ stored = {}
    /\ pc = "done"
    /\ prebaked = Some("empty")
    /\ warnings = 1
    /\ runner = None
    /\ maybe_scenario = None
    /\ scenario = None
    /\ branch = None
    /\ sim = EmptySim
    /\ trace = <<"read_prebaked", "construct">>
    /\ returned = Some([mode |-> mode, menu |-> [standalone_layout |-> FALSE],
                        state |-> "Freeform", prebaked |-> "empty"])

InitToggle ==
    /\ InitFreeformDone
    /\ InitMenu
    /\ acs \in Schemes
    /\ InitNoWizard
    /\ InitNoCompare
    /\ InitNoEvent

NextToggle ==
    \/ MenuEvent
    \/ CallManageAcs
    \/ CallManageOverlays
    \/ CallerSetsOverlay
    \/ EndFrame
    \/ ExternalChange

SpecToggle == InitToggle /\ [][NextToggle]_vars

\* ======================================================= selection wizards

\* abstutil::list_all_objects("maps", ""): the maps on disk.
Maps == {"montlake", "23rd"}

Pop == [kind |-> "Pop", sandbox |-> None]
PopThenReplace(sandbox_mode) ==
    [kind |-> "PopThenReplace", sandbox |-> Some(sandbox_mode)]

\* ezgui::Wizard over one frame: the player is still choosing, has aborted, or
\* has chosen one of the offered strings.
WizardOutcomes(choices) ==
    {[kind |-> "pending", value |-> ""], [kind |-> "aborted", value |-> ""]}
    \cup {[kind |-> "chosen", value |-> c] : c \in choices}
\* WrappedWizard::choose_string: the choice once made, None before and on abort.
ChooseString(o) == IF o.kind = "chosen" THEN Some(o.value) ELSE None
\* Wizard::aborted.
Aborted(o) == o.kind = "aborted"

\* lines 164-169: the synthesized label as change_scenario computes it.
BuiltinOffered_Constant(n_agents) ==
    "random scenario with some agents"
BuiltinOffered(n_agents) ==
    IF n_agents # None
    THEN "random scenario with " \o ToString(n_agents[1]) \o " agents"
    ELSE "random scenario with some agents"

\* lines 172-178: the stored scenarios of the map, the label, "just buses".
ScenarioChoices(files, n_agents) ==
    files \cup {BuiltinOffered(n_agents), "just buses"}

\* lines 187-193: every map but the current one.
MapChoices(maps, current) == {n \in maps : n # current}

\* lines 170-178 and 204-208 are the two ways a callback answers a wizard that
\* has produced no string.
\* change_scenario: choose_string(..)? returns None, aborted or not.
ChangeScenarioNoChoice_ChecksAbort(o) ==
    IF Aborted(o) THEN Some(Pop) ELSE None
ChangeScenarioNoChoice(o) == None
\* load_map: else if wiz.aborted() { Some(Transition::Pop) } else { None }.
LoadMapNoChoice_IgnoresAbort(o) == None
LoadMapNoChoice(o) ==
    IF Aborted(o) THEN Some(Pop) ELSE None

\* lines 163-183, up to the call of SandboxMode::new: one call of change_scenario.
\* A choice starts SandboxMode::new(ctx, ui, GameplayMode::PlayScenario(name)),
\* which initializes a fresh controller.
ChangeScenario ==
    /\ picker = "change_scenario"
    /\ wiz = "open"
    /\ \E o \in WizardOutcomes(ScenarioChoices(stored, num_agents)) :
          /\ wiz_outcome' = Some(o)
          /\ IF ChooseString(o) = None
             THEN /\ transition' = ChangeScenarioNoChoice(o)
                  /\ wiz' = IF Aborted(o) THEN "aborted" ELSE "open"
                  /\ UNCHANGED <<mode, pc>>
             ELSE /\ transition' = None
                  /\ wiz' = "constructing"
                  /\ mode' = [kind |-> "PlayScenario", arg |-> ChooseString(o)[1]]
                  /\ pc' = "start"
    /\ UNCHANGED <<num_agents, rng_seed, prebaked_file, stored, prebaked,
                   warnings, runner, maybe_scenario, scenario, branch, sim,
                   trace, returned, picker, current_map>>
    /\ UNCHANGED <<toggleVars, cmpVars, eventVars>>

\* lines 186-203, up to the call of SandboxMode::new: one call of load_map.  A
\* choice replaces the UI by one loaded from the chosen map (the flags are
\* cloned, the sim is new, the files are those of the new map) and starts
\* SandboxMode::new(ctx, ui, GameplayMode::Freeform).
LoadMap ==
    /\ picker = "load_map"
    /\ wiz = "open"
    /\ \E o \in WizardOutcomes(MapChoices(Maps, current_map)) :
          /\ wiz_outcome' = Some(o)
          /\ IF ChooseString(o) = None
             THEN /\ transition' = LoadMapNoChoice(o)
                  /\ wiz' = IF Aborted(o) THEN "aborted" ELSE "open"
                  /\ UNCHANGED <<mode, pc, current_map, stored, prebaked_file>>
             ELSE /\ transition' = None
                  /\ wiz' = "constructing"
                  /\ current_map' = ChooseString(o)[1]
                  /\ stored' \in SUBSET StorableNames
                  /\ prebaked_file' \in BOOLEAN
                  /\ mode' = [kind |-> "Freeform", arg |-> ""]
                  /\ pc' = "start"
    /\ UNCHANGED <<num_agents, rng_seed, prebaked, warnings, runner,
                   maybe_scenario, scenario, branch, sim, trace, returned,
                   picker>>
    /\ UNCHANGED <<toggleVars, cmpVars, eventVars>>

\* lines 179-183 and 198-203: SandboxMode::new has returned; the callback
\* returns Some(Transition::PopThenReplace(Box::new(sandbox mode))).
WizardReturn ==
    /\ wiz = "constructing"
    /\ pc = "done"
    /\ transition' = Some(PopThenReplace(returned[1]))
    /\ wiz' = "done"
    /\ UNCHANGED <<picker, wiz_outcome, current_map>>
    /\ UNCHANGED <<initVars, toggleVars, cmpVars, eventVars>>

\* A wizard has just been opened over a running sandbox.
InitWizard ==
    /\ mode = [kind |-> "Freeform", arg |-> ""]
    /\ num_agents \in AgentCounts
    /\ rng_seed \in 0..MaxSeed
    /\ prebaked_file \in BOOLEAN
    /\ stored \in SUBSET StorableNames
    /\ pc = "wizard"
    /\ prebaked = None
    /\ warnings = 0
    /\ runner = None
    /\ maybe_scenario = None
    /\ scenario = None
    /\ branch = None
    /\ sim = EmptySim
    /\ trace = <<>>
    /\ returned = None
    /\ InitMenu
    /\ acs = "Delay"
    /\ picker \in {"change_scenario", "load_map"}
    /\ wiz = "open"
    /\ wiz_outcome = None
    /\ transition = None
    /\ current_map \in Maps
    /\ InitNoCompare
    /\ InitNoEvent

NextWizard ==
    \/ ChangeScenario
    \/ LoadMap
    \/ WizardReturn
    \/ LoadPrebaked
    \/ ConstructMode
    \/ ResolveScenario
    \/ Instantiate
    \/ StepSim
    \/ Return

SpecWizard == InitWizard /\ [][NextWizard]_vars

\* ====================================================== metric comparators

\* ezgui::Line(text) and TextSpan::fg(color): a span of text, colored or not.
Line(text) == [text |-> text, fg |-> None]
Fg(span, color) == [span EXCEPT !.fg = Some(color)]

\* abstutil::prettyprint_usize: decimal with a comma between groups of three.
RECURSIVE PrettyprintUsize(_)
PrettyprintUsize(n) ==
    IF n < 1000 THEN ToString(n)
    ELSE PrettyprintUsize(n \div 1000) \o ","
         \o (IF n % 1000 < 10 THEN "00" ELSE IF n % 1000 < 100 THEN "0" ELSE "")
         \o ToString(n % 1000)

\* geom::Duration, in ticks.  epsilon_eq: the two are within the tolerance.
EpsilonEq(a, b) == (IF a < b THEN b - a ELSE a - b) < Epsilon
\* Duration::minimal_tostring.
MinimalToString(d) == ToString(d) \o " ticks"

\* lines 285-294: cmp_count_fewer (fewer is better).
CmpCountFewer_Inclusive(n, b) ==
    IF n <= b
    THEN Fg(Line(PrettyprintUsize(b - n) \o " fewer"), "GREEN")
    ELSE Fg(Line(PrettyprintUsize(n - b) \o " more"), "RED")
CmpCountFewer(n, b) ==
    IF n < b
    THEN Fg(Line(PrettyprintUsize(b - n) \o " fewer"), "GREEN")
    ELSE IF n > b
    THEN Fg(Line(PrettyprintUsize(n - b) \o " more"), "RED")
    ELSE Line("same as baseline")

\* lines 296-305: cmp_count_more (more is better).
CmpCountMore_NotInverted(n, b) ==
    IF n < b
    THEN Fg(Line(PrettyprintUsize(b - n) \o " fewer"), "GREEN")
    ELSE IF n > b
    THEN Fg(Line(PrettyprintUsize(n - b) \o " more"), "RED")
    ELSE Line("same as baseline")
CmpCountMore(n, b) ==
    IF n < b
    THEN Fg(Line(PrettyprintUsize(b - n) \o " fewer"), "RED")
    ELSE IF n > b
    THEN Fg(Line(PrettyprintUsize(n - b) \o " more"), "GREEN")
    ELSE Line("same as baseline")

\* lines 264-283: cmp_duration_shorter (shorter is better).  The result is the
\* vector of spans, or the panic of unreachable!().
CmpDurationShorter_OrderFirst(n, b) ==
    IF n < b
    THEN [spans |-> <<Line(" ("), Fg(Line(MinimalToString(b - n)), "GREEN"),
                      Line(" faster)")>>, unreachable |-> FALSE]
    ELSE IF n > b
    THEN [spans |-> <<Line(" ("), Fg(Line(MinimalToString(n - b)), "RED"),
                      Line(" slower)")>>, unreachable |-> FALSE]
    ELSE IF EpsilonEq(n, b)
    THEN [spans |-> <<Line(" (same as baseline)")>>, unreachable |-> FALSE]
    ELSE [spans |-> <<>>, unreachable |-> TRUE]
CmpDurationShorter(n, b) ==
    IF EpsilonEq(n, b)
    THEN [spans |-> <<Line(" (same as baseline)")>>, unreachable |-> FALSE]
    ELSE IF n < b
    THEN [spans |-> <<Line(" ("), Fg(Line(MinimalToString(b - n)), "GREEN"),
                      Line(" faster)")>>, unreachable |-> FALSE]
    ELSE IF n > b
    THEN [spans |-> <<Line(" ("), Fg(Line(MinimalToString(n - b)), "RED"),
                      Line(" slower)")>>, unreachable |-> FALSE]
    ELSE [spans |-> <<>>, unreachable |-> TRUE]

\* A mode asks for each comparison of the pair (now, baseline).
CompareCountFewer ==
    /\ out_fewer = None
    /\ out_fewer' = Some(CmpCountFewer(now, baseline))
    /\ UNCHANGED <<now, baseline, out_more, out_duration>>
    /\ UNCHANGED <<initVars, toggleVars, wizardVars, eventVars>>

CompareCountMore ==
    /\ out_more = None
    /\ out_more' = Some(CmpCountMore(now, baseline))
    /\ UNCHANGED <<now, baseline, out_fewer, out_duration>>
    /\ UNCHANGED <<initVars, toggleVars, wizardVars, eventVars>>

CompareDurationShorter ==
    /\ out_duration = None
    /\ out_duration' = Some(CmpDurationShorter(now, baseline))
    /\ UNCHANGED <<now, baseline, out_fewer, out_more>>
    /\ UNCHANGED <<initVars, toggleVars, wizardVars, eventVars>>

\* Every pair of a live and a baseline value.
InitCompare ==
    /\ InitFreeformDone
    /\ InitMenu
    /\ acs = "Delay"
    /\ InitNoWizard
    /\ InitNoEvent
    /\ now \in 0..MaxValue
    /\ baseline \in 0..MaxValue
    /\ out_fewer = None
    /\ out_more = None
    /\ out_duration = None

NextCompare ==
    \/ CompareCountFewer
    \/ CompareCountMore
    \/ CompareDurationShorter

SpecCompare == InitCompare /\ [][NextCompare]_vars

\* =================================================== GameplayRunner::event

\* What the event handler of a mode (freeform::Freeform::event, ...) may
\* return: nothing, or a transition for the caller to apply.
HandlerResults ==
    {None, Some(Pop),
     Some(PopThenReplace([mode |-> [kind |-> "Freeform", arg |-> ""]]))}

\* lines 128-154, the match on self.state: the handler called for each variant
\* and what it is handed besides ctx, ui and the menu.
EventDispatch_AlwaysFreeform(variant) ==
    [handler |-> "freeform::Freeform::event",
     overlays |-> FALSE, prebaked |-> FALSE]
EventDispatch(variant) ==
    CASE variant = "Freeform" ->
            [handler |-> "freeform::Freeform::event",
             overlays |-> FALSE, prebaked |-> FALSE]
      [] variant = "PlayScenario" ->
            [handler |-> "play_scenario::PlayScenario::event",
             overlays |-> FALSE, prebaked |-> FALSE]
      [] variant = "OptimizeBus" ->
            [handler |-> "optimize_bus::OptimizeBus::event",
             overlays |-> TRUE, prebaked |-> TRUE]
      [] variant = "CreateGridlock" ->
            [handler |-> "create_gridlock::CreateGridlock::event",
             overlays |-> FALSE, prebaked |-> TRUE]
      [] variant = "FasterTrips" ->
            [handler |-> "faster_trips::FasterTrips::event",
             overlays |-> FALSE, prebaked |-> TRUE]

\* lines 130-132, 135-137, ..., 155: Some(t) of the handler is returned as
\* Some(t); otherwise the match falls through to the final None.
EventResult_DropsPlayScenario(variant, handled) ==
    IF variant # "PlayScenario" /\ handled # None THEN Some(handled[1]) ELSE None
EventResult(variant, handled) ==
    IF handled # None THEN Some(handled[1]) ELSE None

\* lines 122-156: the controller after event.  The handler gets the variant's
\* payload by `ref mut` and the baseline by `&`; event assigns no field.
EventController_BackToFreeform(c, result) ==
    IF result # None
    THEN [c EXCEPT !.mode = [kind |-> "Freeform", arg |-> ""],
                   !.state = "Freeform"]
    ELSE c
EventController(c, result) == c

\* lines 122-156: one call of event on the controller initialize returned.
Event ==
    /\ pc = "done"
    /\ returned # None
    /\ ev_calls < MaxEvents
    /\ \E handled \in HandlerResults :
          LET variant == returned[1].state
              result == EventResult(variant, handled)
          IN  /\ ev_last' = Some([dispatch |-> EventDispatch(variant),
                                  handled |-> handled,
                                  result |-> result])
              /\ returned' = Some(EventController(returned[1], result))
    /\ ev_calls' = ev_calls + 1
    /\ UNCHANGED <<mode, num_agents, rng_seed, prebaked_file, stored, pc,
                   prebaked, warnings, runner, maybe_scenario, scenario, branch,
                   sim, trace>>
    /\ UNCHANGED <<toggleVars, wizardVars, cmpVars>>

\* initialize, then any number of frames of event.
NextEvent ==
    \/ LoadPrebaked
    \/ ConstructMode
    \/ ResolveScenario
    \/ Instantiate
    \/ StepSim
    \/ Return
    \/ Event

SpecEvent == InitInitialize /\ [][NextEvent]_vars

\* ========================================================== properties

\* Decimal rendering by digits, as Rust's Display for usize prints it.
Digits == <<"0", "1", "2", "3", "4", "5", "6", "7", "8", "9">>
RECURSIVE Decimal(_)
Decimal(n) ==
    IF n < 10 THEN Digits[n + 1]
    ELSE Decimal(n \div 10) \o Digits[(n % 10) + 1]

\* The synthesized label the documentation gives for a configured count.
SynthesizedLabel(count) ==
    IF count = None THEN "random scenario with some agents"
    ELSE "random scenario with " \o Decimal(count[1]) \o " agents"

Occurrences(e, s) == Cardinality({i \in DOMAIN s : s[i] = e})

\* The scenario as resolved: still the local, or already moved into the sim.
Resolved == IF scenario # None THEN scenario ELSE sim.scenario

\* Calls of initialize, storage reads left out.
Steps == SelectSeq(trace, LAMBDA e : e # "read_scenario")

\* ------------------------------------------------------------------ C1
\* C1: with GameplayMode::Freeform initialize never resolves a scenario (none
\* is built or read, the sim is neither instantiated nor stepped), never
\* panics, and returns a controller whether or not the baseline file exists;
\* every other mode produces exactly one scenario name and resolves it once.
C1_FreeformSkipsScenario ==
    /\ mode.kind = "Freeform" =>
          /\ maybe_scenario = None
          /\ scenario = None
          /\ branch = None
          /\ sim = EmptySim
          /\ Occurrences("resolve", trace) = 0
          /\ Occurrences("read_scenario", trace) = 0
          /\ pc \in {"start", "construct", "return", "done"}
          /\ pc = "done" => returned # None /\ returned[1].state = "Freeform"
    /\ (mode.kind # "Freeform" /\ pc \notin {"start", "construct"}) =>
          /\ Len(maybe_scenario) = 1
          /\ pc # "resolve" => Occurrences("resolve", trace) = 1 /\ Len(branch) = 1
          /\ pc = "resolve" => Occurrences("resolve", trace) = 0

\* Freeform has returned a controller although the baseline file is missing.
C1_Witness ==
    /\ mode.kind = "Freeform"
    /\ ~prebaked_file
    /\ pc = "done"
    /\ returned # None
    /\ sim = EmptySim

\* ------------------------------------------------------------------ C2
\* C2: for every mode a failed baseline load is absorbed: the analytics kept
\* (and stored in the controller) is the empty value, one warning is printed,
\* and the next step is mode construction, as after a successful load.
C2_BaselineAbsorbed ==
    /\ pc # "start" =>
          /\ trace[1] = "read_prebaked"
          /\ pc = "construct" \/ (Len(trace) >= 2 /\ trace[2] = "construct")
          /\ Len(prebaked) = 1
    /\ (pc # "start" /\ ~prebaked_file) =>
          /\ prebaked = Some("empty")
          /\ warnings = 1
          /\ runner # None => runner[1].prebaked = "empty"
          /\ returned # None => returned[1].prebaked = "empty"
    /\ (pc = "done" /\ ~prebaked_file) => returned # None

\* A scenario mode has finished initializing on the empty analytics.
C2_Witness ==
    /\ ~prebaked_file
    /\ mode.kind = "CreateGridlock"
    /\ pc = "done"
    /\ returned # None
    /\ returned[1].prebaked = "empty"
    /\ warnings = 1

\* ------------------------------------------------------------------ C3
\* C3: resolution follows the stated order for every name and every configured
\* count: the name equal to the synthesized label of the current configuration
\* gives the scaled run with exactly n agents (count Some(n)) or the
\* default-sized run (count None), without reading storage; otherwise "just
\* buses" gives the empty scenario with bus seeding; otherwise the name is read
\* from storage.  Exactly one arm runs.
C3_ResolutionOrder ==
    branch # None =>
       LET name == maybe_scenario[1]
           synth == name = SynthesizedLabel(num_agents)
           buses == ~synth /\ name = "just buses"
           reads == Occurrences("read_scenario", trace)
       IN  /\ synth =>
              /\ branch = Some("builtin")
              /\ reads = 0
              /\ pc # "panicked"
              /\ num_agents # None =>
                    Resolved[1].via = "scaled_run" /\ Resolved[1].agents = num_agents
              /\ num_agents = None => Resolved[1].via = "small_run"
           /\ buses =>
              /\ branch = Some("just buses")
              /\ reads = 0
              /\ pc # "panicked"
              /\ Resolved[1].via = "empty"
              /\ Resolved[1].seed_buses
           /\ (~synth /\ ~buses) =>
              /\ branch = Some("load")
              /\ reads = 1
              /\ name \in stored =>
                    Resolved[1].via = "read_binary" /\ Resolved[1].scenario_name = name
              /\ name \notin stored => pc = "panicked"

\* The synthesized label with a configured count produced the scaled run.
C3_Witness ==
    /\ num_agents = Some(2)
    /\ mode = [kind |-> "PlayScenario", arg |-> "random scenario with 2 agents"]
    /\ pc = "done"
    /\ sim.scenario # None
    /\ sim.scenario[1].via = "scaled_run"
    /\ sim.scenario[1].agents = Some(2)

\* ------------------------------------------------------------------ C4
\* C4: PlayScenario("just buses") yields a scenario with empty agent demand and
\* bus seeding on, whatever the configured count and whatever is stored, and
\* never reads storage (so it never fails).
C4_JustBuses ==
    (mode = [kind |-> "PlayScenario", arg |-> "just buses"] /\ branch # None) =>
       /\ pc # "panicked"
       /\ Resolved[1].agents = Some(0)
       /\ Resolved[1].seed_buses
       /\ Resolved[1].scenario_name = "just buses"
       /\ Occurrences("read_scenario", trace) = 0

\* "just buses" instantiated with a count configured and a stored file of
\* that very name present.
C4_Witness ==
    /\ mode = [kind |-> "PlayScenario", arg |-> "just buses"]
    /\ num_agents = Some(1)
    /\ "just buses" \in stored
    /\ pc = "done"
    /\ sim.scenario # None
    /\ sim.scenario[1].seed_buses
    /\ sim.scenario[1].agents = Some(0)

\* ------------------------------------------------------------------ C5
\* C5: a named scenario (neither the synthesized label nor "just buses") that
\* storage does not hold aborts initialize: it panics, no controller is
\* returned or left behind, and the sim has been neither instantiated nor
\* stepped.
C5_MissingScenarioAborts ==
    /\ (branch = Some("load") /\ maybe_scenario[1] \notin stored) =>
          pc = "panicked"
    /\ pc = "panicked" =>
          /\ branch = Some("load")
          /\ maybe_scenario[1] \notin stored
          /\ returned = None
          /\ runner = None
          /\ scenario = None
          /\ sim = EmptySim
          /\ Occurrences("instantiate", trace) = 0
          /\ Occurrences("step", trace) = 0

\* The default scenario of a challenge mode is missing from storage.
C5_Witness ==
    /\ mode.kind = "OptimizeBus"
    /\ PSRC \notin stored
    /\ pc = "panicked"
    /\ returned = None
    /\ sim = EmptySim

\* ------------------------------------------------------------------ C6
\* C6: a successful initialize of a mode with a scenario name makes its calls
\* in this order, each once: baseline load, mode construction, resolution,
\* instantiation (with the rng made from the sim flags), one step of 0.1 s.
\* The step never precedes instantiation; the scenario is consumed once.
C6_InitializeOrder ==
    /\ sim.steps > 0 => sim.instantiated = 1
    /\ sim.steps <= 1
    /\ sim.instantiated <= 1
    /\ sim.instantiated = 1 =>
          /\ scenario = None
          /\ sim.scenario # None
          /\ sim.rng = Some([seeded_from |-> rng_seed])
    /\ (pc = "done" /\ maybe_scenario # None) =>
          /\ Steps = <<"read_prebaked", "construct", "resolve", "instantiate",
                       "step">>
          /\ sim.instantiated = 1
          /\ sim.steps = 1
          /\ sim.time = 1      \* tenths of a second
          /\ returned # None

\* A stored scenario has been instantiated and stepped once.
C6_Witness ==
    /\ mode = [kind |-> "PlayScenario", arg |-> "custom"]
    /\ pc = "done"
    /\ trace = <<"read_prebaked", "construct", "resolve", "read_scenario",
                 "instantiate", "step">>
    /\ sim.steps = 1
    /\ sim.rng = Some([seeded_from |-> rng_seed])

\* ------------------------------------------------------------------ C7
ToggleChoices(m, show, hide) ==
    {i \in DOMAIN m.choices : m.choices[i] \in {show, hide}}

\* The label shown for the color-scheme toggle agrees with ui.agent_cs.
AcsLabelMatches ==
    /\ Cardinality(ToggleChoices(menu, AcsShow, AcsHide)) <= 1
    /\ (AcsHide \in Labels(menu)) <=> (agent_cs = acs)

NoOverlayTrigger(c) ==
    c.menu_before.chosen_action \notin {Some(OvShow), Some(OvHide)}

\* C8: a manage_overlays call with no trigger of its toggle this frame leaves
\* the label "hide" if active_originally and "show" otherwise, also when the
\* label had drifted because another UI path flipped the overlay, and leaves
\* the overlay state unchanged.
C8_DriftRepaired ==
    (ov_call # None /\ NoOverlayTrigger(ov_call[1])) =>
       LET c == ov_call[1]
       IN  /\ c.overlay_after = c.overlay_before
           /\ Cardinality(ToggleChoices(c.menu_after, OvShow, OvHide)) = 1
           /\ c.active_originally =>
                 OvHide \in Labels(c.menu_after) /\ OvShow \notin Labels(c.menu_after)
           /\ ~c.active_originally =>
                 OvShow \in Labels(c.menu_after) /\ OvHide \notin Labels(c.menu_after)
           /\ c.menu_after.chosen_action = c.menu_before.chosen_action

\* The overlay was switched on elsewhere while the label still read "show";
\* the call, with nothing chosen, has relabelled it "hide".
C8_Witness ==
    /\ ov_call # None
    /\ ov_call[1].active_originally
    /\ OvShow \in Labels(ov_call[1].menu_before)
    /\ ov_call[1].menu_before.chosen_action = None
    /\ OvHide \in Labels(ov_call[1].menu_after)
    /\ overlay = "Custom"

\* ------------------------------------------------------------------ C9
\* C9: with active_originally false and the show action triggered this frame,
\* manage_overlays returns true, relabels to "hide" and leaves the overlay as
\* it was (in particular does not reset it to Inactive); no call both returns
\* true and resets the overlay, and a call that resets it returns false.
C9_ActivateOnly ==
    ov_call # None =>
       LET c == ov_call[1]
       IN  /\ (~c.active_originally /\ c.menu_before.chosen_action = Some(OvShow)) =>
                 /\ c.result
                 /\ OvHide \in Labels(c.menu_after)
                 /\ OvShow \notin Labels(c.menu_after)
                 /\ c.menu_after.chosen_action = None
                 /\ c.overlay_after = c.overlay_before
           /\ c.overlay_after # c.overlay_before =>
                 ~c.result /\ c.active_originally /\ c.overlay_after = "Inactive"
           /\ c.result => c.overlay_after = c.overlay_before

\* The player chose "show overlay" while another overlay was up.
C9_Witness ==
    /\ ov_call # None
    /\ ~ov_call[1].active_originally
    /\ ov_call[1].menu_before.chosen_action = Some(OvShow)
    /\ ov_call[1].overlay_before = "Other"
    /\ ov_call[1].result
    /\ overlay = "Other"

\* ------------------------------------------------------------------ C10
\* A call of the synchronizer that is not the first since menu.event.
RepeatedAcsCall == acs_calls >= 1 /\ acs_calls' = acs_calls + 1
RepeatedOverlayCall == ov_calls >= 1 /\ ov_calls' = ov_calls + 1

\* C10 as stated: a second call in the same frame, with no new menu
\* interaction, changes neither the external flag nor the reported signal.
C10_SecondCallSameSignal ==
    [][ /\ RepeatedAcsCall => agent_cs' = agent_cs
        /\ RepeatedOverlayCall =>
              /\ overlay' = overlay
              /\ ov_call'[1].result = ov_call[1].result ]_vars

\* C10 amended: a second call in the same frame never changes the external
\* flag, and it repeats the reported signal unless the first call reported an
\* activation (true on a consumed show trigger): that is reported once, the
\* second call returning active_originally AND time_changed.
C10_SecondCallKeepsFlag ==
    [][ /\ RepeatedAcsCall => agent_cs' = agent_cs
        /\ RepeatedOverlayCall =>
              /\ overlay' = overlay
              /\ ov_call'[1].result =
                    (ov_call'[1].active_originally /\ time_changed)
              /\ (ov_call[1].active_originally \/ ~ov_call[1].result) =>
                    ov_call'[1].result = ov_call[1].result ]_vars

\* Two calls of each synchronizer in one frame, the first of manage_overlays
\* having reported an activation that the second does not repeat.
C10_Witness ==
    /\ ov_calls = 2
    /\ acs_calls = 2
    /\ ov_call # None
    /\ ~ov_call[1].result
    /\ OvHide \in Labels(ov_call[1].menu_before)
    /\ ov_call[1].menu_before.chosen_action = None
    /\ ~ov_call[1].active_originally

\* ------------------------------------------------------------------ C11
\* C11 as stated: when the player aborts either wizard (load_map or
\* change_scenario) the callback returns Pop; an unfinished wizard returns no
\* transition; a completed choice returns PopThenReplace with a freshly
\* constructed sandbox mode.
C11_AbortPops ==
    /\ (wiz_outcome # None /\ wiz_outcome[1].kind = "aborted") =>
          transition = Some(Pop)
    /\ (wiz_outcome # None /\ wiz_outcome[1].kind = "pending") =>
          transition = None
    /\ (picker # "none" /\ wiz = "done") =>
          /\ wiz_outcome[1].kind = "chosen"
          /\ transition # None
          /\ transition[1].kind = "PopThenReplace"
          /\ transition[1].sandbox = returned
          /\ returned[1].mode = mode

\* ------------------------------------------------------------------ C13
\* C13: for live = baseline both count comparators return the neutral,
\* uncolored "same as baseline" (never "0 fewer" or "0 more"); for live <
\* baseline cmp_count_fewer is green and cmp_count_more red, for live >
\* baseline the reverse; the two return the same text for every pair.
C13_CountComparators ==
    (out_fewer # None /\ out_more # None) =>
       LET f == out_fewer[1]
           m == out_more[1]
       IN  /\ f.text = m.text
           /\ now = baseline =>
                 /\ f = [text |-> "same as baseline", fg |-> None]
                 /\ m = [text |-> "same as baseline", fg |-> None]
           /\ now # baseline =>
                 /\ f.text \notin {"same as baseline", "0 fewer", "0 more"}
                 /\ f.fg # m.fg
           /\ now < baseline =>
                 /\ f.fg = Some("GREEN")
                 /\ m.fg = Some("RED")
                 /\ f.text = Decimal(baseline - now) \o " fewer"
           /\ now > baseline =>
                 /\ f.fg = Some("RED")
                 /\ m.fg = Some("GREEN")
                 /\ f.text = Decimal(now - baseline) \o " more"

\* Both comparators have been applied to an equal pair.
C13_Witness ==
    /\ now = 3
    /\ baseline = 3
    /\ out_fewer = Some([text |-> "same as baseline", fg |-> None])
    /\ out_more = Some([text |-> "same as baseline", fg |-> None])

\* ------------------------------------------------------------------ C14
\* The one handler that belongs to a mode.
HandlerOfMode(kind) ==
    CASE kind = "Freeform"       -> "freeform::Freeform::event"
      [] kind = "PlayScenario"   -> "play_scenario::PlayScenario::event"
      [] kind = "OptimizeBus"    -> "optimize_bus::OptimizeBus::event"
      [] kind = "CreateGridlock" -> "create_gridlock::CreateGridlock::event"
      [] kind = "FasterTrips"    -> "faster_trips::FasterTrips::event"

\* C14: after any sequence of event calls the controller's State variant is
\* still that of the GameplayMode it was initialized with, its mode and its
\* baseline analytics are unchanged, each call ran the handler of exactly that
\* variant, and event applied no transition (the controller is still there,
\* also after the handler asked for one).
C14_VariantFixed ==
    returned # None =>
       /\ returned[1].mode = mode
       /\ returned[1].state = mode.kind
       /\ returned[1].prebaked = (IF prebaked_file THEN "loaded" ELSE "empty")
       /\ ev_last # None =>
             ev_last[1].dispatch.handler = HandlerOfMode(mode.kind)
       /\ (ev_last = None) <=> (ev_calls = 0)

\* Two event calls on an OptimizeBus controller, the last asking to pop.
C14_Witness ==
    /\ mode.kind = "OptimizeBus"
    /\ ev_calls = 2
    /\ ev_last # None
    /\ ev_last[1].handled = Some(Pop)
    /\ returned # None
    /\ returned[1].state = "OptimizeBus"

\* ------------------------------------------------------------------ C15
\* C15: event returns what the active variant's handler returned: Some(t) with
\* the same t when the handler asks for a transition, None exactly when the
\* handler returns None, for every variant.
C15_EventReturnsHandlerResult ==
    ev_last # None =>
       /\ ev_last[1].result = ev_last[1].handled
       /\ (ev_last[1].result = None) <=> (ev_last[1].handled = None)

\* A PlayScenario handler asked for a replacement and event passed it on.
C15_Witness ==
    /\ mode.kind = "PlayScenario"
    /\ ev_last # None
    /\ ev_last[1].handled # None
    /\ ev_last[1].handled[1].kind = "PopThenReplace"
    /\ ev_last[1].result = ev_last[1].handled

\* ------------------------------------------------------------------ C16
\* The call found the hide action triggered while the overlay was the mode's.
Deactivation(c) ==
    c.active_originally /\ c.menu_before.chosen_action = Some(OvHide)
\* The call found the show action triggered while the overlay was not.
Activation(c) ==
    (~c.active_originally) /\ c.menu_before.chosen_action = Some(OvShow)

\* C16: manage_overlays writes the overlay only in the deactivation branch
\* (active_originally and the hide action triggered this frame), where it sets
\* Overlays::Inactive and returns false; in every other case the overlay is
\* unchanged, and with no toggle this frame the return value is
\* active_originally AND time_changed (false whenever the overlay was inactive).
C16_OverlayWrittenOnDeactivation ==
    ov_call # None =>
       LET c == ov_call[1]
       IN  /\ Deactivation(c) =>
                 c.overlay_after = "Inactive" /\ ~c.result
           /\ ~Deactivation(c) => c.overlay_after = c.overlay_before
           /\ (~Deactivation(c) /\ ~Activation(c)) =>
                 /\ c.result = (c.active_originally /\ c.time_changed)
                 /\ ~c.active_originally => ~c.result

\* A continuously active overlay is told to refresh because the time changed.
C16_Witness ==
    /\ ov_call # None
    /\ ov_call[1].active_originally
    /\ ov_call[1].time_changed
    /\ ov_call[1].menu_before.chosen_action = None
    /\ ov_call[1].result
    /\ ov_call[1].overlay_after = "Custom"

\* ------------------------------------------------------------------ C17
\* C17: cmp_duration_shorter tests epsilon-equality before the order: every
\* pair within epsilon (live equal to baseline included) gives the neutral
\* fragment; a pair outside epsilon gives "faster" in green when live <
\* baseline and "slower" in red when live > baseline, with the absolute
\* difference; unreachable!() is reached for no pair.
C17_EpsilonFirst ==
    out_duration # None =>
       LET d == out_duration[1]
           diff == IF now < baseline THEN baseline - now ELSE now - baseline
           amount == [text |-> Decimal(diff) \o " ticks"]
       IN  /\ ~d.unreachable
           /\ diff < Epsilon =>
                 d.spans = <<[text |-> " (same as baseline)", fg |-> None]>>
           /\ (diff >= Epsilon /\ now < baseline) =>
                 /\ Len(d.spans) = 3
                 /\ d.spans[2].text = amount.text
                 /\ d.spans[2].fg = Some("GREEN")
                 /\ d.spans[3].text = " faster)"
           /\ (diff >= Epsilon /\ now > baseline) =>
                 /\ Len(d.spans) = 3
                 /\ d.spans[2].text = amount.text
                 /\ d.spans[2].fg = Some("RED")
                 /\ d.spans[3].text = " slower)"

\* A live duration one tick under the baseline: within epsilon, not equal.
C17_Witness ==
    /\ now + 1 = baseline
    /\ out_duration # None
    /\ out_duration[1].spans = <<[text |-> " (same as baseline)", fg |-> None]>>

\* ------------------------------------------------------------------ C18
\* The names change_scenario adds to the stored scenarios of the map.
OfferedNotStored == {SynthesizedLabel(num_agents), "just buses"} \ stored

\* C18: every name change_scenario offers that is not a stored scenario (the
\* synthesized label and "just buses") resolves in the initialize that follows
\* without reaching the storage-load path, the agent count being the same in
\* both: the label takes the builtin arm, "just buses" its own arm, storage is
\* not read and initialize does not panic.  The label is computed identically
\* in change_scenario and in initialize.
C18_OfferedNamesResolve ==
    /\ \A c \in AgentCounts :
          BuiltinOffered(c) = SynthesizedLabel(c) /\ Builtin(c) = BuiltinOffered(c)
    /\ (picker = "change_scenario" /\ wiz_outcome # None
          /\ wiz_outcome[1].kind = "chosen" /\ wiz_outcome[1].value \notin stored) =>
          /\ wiz_outcome[1].value \in OfferedNotStored
          /\ mode = [kind |-> "PlayScenario", arg |-> wiz_outcome[1].value]
          /\ pc # "panicked"
          /\ Occurrences("read_scenario", trace) = 0
          /\ branch # None =>
                branch = Some(IF wiz_outcome[1].value = SynthesizedLabel(num_agents)
                              THEN "builtin" ELSE "just buses")
          /\ wiz = "done" => returned # None /\ transition # None

\* The label of a configured count, not stored, chosen and resolved as builtin.
C18_Witness ==
    /\ picker = "change_scenario"
    /\ num_agents # None
    /\ wiz_outcome # None
    /\ wiz_outcome[1].kind = "chosen"
    /\ wiz_outcome[1].value = SynthesizedLabel(num_agents)
    /\ wiz_outcome[1].value \notin stored
    /\ branch = Some("builtin")
    /\ wiz = "done"

\* ------------------------------------------------------------------ C19
\* Every name of the synthesized form, for a count or for none.
SynthesizedForms == {SynthesizedLabel(c) : c \in AgentCounts}
\* The mode names a label of the synthesized form that is not the label of the
\* current configuration.
StaleLabel ==
    /\ mode.kind = "PlayScenario"
    /\ mode.arg \in SynthesizedForms
    /\ mode.arg # SynthesizedLabel(num_agents)

\* C19: a synthesized label that does not match the current configuration is
\* not treated as synthetic: "random scenario with some agents" with a count
\* configured, "random scenario with m agents" with another count or with none,
\* goes to the storage-load path, is read from storage when stored there, and
\* is fatal (no controller, sim untouched) when it is not.
C19_StaleLabelLoads ==
    StaleLabel =>
       /\ branch # None =>
             /\ branch = Some("load")
             /\ Occurrences("read_scenario", trace) = 1
       /\ (branch # None /\ mode.arg \in stored) =>
             /\ pc # "panicked"
             /\ Resolved[1].via = "read_binary"
             /\ Resolved[1].scenario_name = mode.arg
       /\ (branch # None /\ mode.arg \notin stored) =>
             /\ pc = "panicked"
             /\ returned = None
             /\ sim = EmptySim
       /\ mode.arg \notin stored =>
             pc \in {"start", "construct", "resolve", "panicked"}

\* "some agents" asked for while a count is configured, and not stored.
C19_Witness ==
    /\ num_agents # None
    /\ mode = [kind |-> "PlayScenario", arg |-> "random scenario with some agents"]
    /\ mode.arg \notin stored
    /\ branch = Some("load")
    /\ pc = "panicked"

=============================================================================
